---------------------------- MODULE Spec2Model ----------------------------
(***************************************************************************)
(* Model of the deploy sequence of LabBirita Mini (src/Deploy.py):         *)
(* DeployWorker.run, DeployWorker.log, append_log_file and the GUI         *)
(* handlers that start a run and receive its outcome.                      *)
(*                                                                         *)
(* The repository (git HEAD, index, working tree), the .gitignore text,    *)
(* the persistent log file, GitHub and Render are the environment: every   *)
(* command or request the code issues gets one of the results that the     *)
(* environment can produce, chosen nondeterministically.                   *)
(***************************************************************************)
EXTENDS Integers, Sequences, FiniteSets, TLC

(***************************************************************************)
(* Text.  A text is a sequence of one-character strings, so that           *)
(* splitlines, strip, the substring test and endswith are computed and     *)
(* not assumed.                                                            *)
(***************************************************************************)
NL == "\n"
SP == " "

S_ENV == <<".", "e", "n", "v">>
S_LOCAL == <<".", "l", "o", "c", "a", "l">>
S_LOG == <<"d", "e", "p", "l", "o", "y", "_", "l", "o", "g", ".", "t", "x", "t">>
S_ATXT == <<"a", ".", "t", "x", "t">>
S_GITIGNORE == <<".", "g", "i", "t", "i", "g", "n", "o", "r", "e">>

\* str.splitlines(): the lines of a text, without their line ends.
RECURSIVE SplitLines(_)
SplitLines(s) ==
    IF s = <<>> THEN <<>>
    ELSE IF \E k \in 1..Len(s) : s[k] = NL
         THEN LET k == CHOOSE j \in 1..Len(s) :
                          s[j] = NL /\ \A m \in 1..(j - 1) : s[m] # NL
              IN <<SubSeq(s, 1, k - 1)>> \o SplitLines(SubSeq(s, k + 1, Len(s)))
         ELSE <<s>>

\* str.rstrip() / str.lstrip() / str.strip() over blanks.
RECURSIVE RStrip(_)
RStrip(s) ==
    IF s # <<>> /\ s[Len(s)] \in {SP, NL} THEN RStrip(SubSeq(s, 1, Len(s) - 1)) ELSE s

RECURSIVE LStrip(_)
LStrip(s) ==
    IF s # <<>> /\ s[1] \in {SP, NL} THEN LStrip(Tail(s)) ELSE s

Strip(s) == LStrip(RStrip(s))

\* Python's `sub in s`.
Contains(s, sub) ==
    \E k \in 1..(Len(s) - Len(sub) + 1) : SubSeq(s, k, k + Len(sub) - 1) = sub

\* str.endswith(suffix).
EndsWith(s, suffix) ==
    /\ Len(s) >= Len(suffix)
    /\ SubSeq(s, Len(s) - Len(suffix) + 1, Len(s)) = suffix

(***************************************************************************)
(* Paths of the working directory.  LOG_FILE is a relative name, so the    *)
(* log lives in the directory the git commands run in.                     *)
(***************************************************************************)
P_ENV == ".env"
P_GITIGNORE == ".gitignore"
LOG_FILE == "deploy_log.txt"
P_ATXT == "a.txt"

Paths == {P_ENV, P_GITIGNORE, LOG_FILE, P_ATXT}

\* git prints changed paths in this order.
PathOrder == <<P_ENV, P_GITIGNORE, P_ATXT, LOG_FILE>>

PathText(p) ==
    CASE p = P_ENV -> S_ENV
      [] p = P_GITIGNORE -> S_GITIGNORE
      [] p = LOG_FILE -> S_LOG
      [] OTHER -> S_ATXT

\* Path(".gitignore").exists() is false.
Absent == <<"(no file)">>

\* The .gitignore texts a repository starts with.
GitignoreTexts ==
    { <<>>,
      S_ENV \o <<NL>>,
      S_ENV \o S_LOCAL \o <<NL>>,
      S_LOG \o <<NL>>,
      S_ENV \o <<NL>> \o S_LOG \o <<NL>> }


(***************************************************************************)
(* The repository.  Each path has three versions of its content: in HEAD   *)
(* (h), in the index (i) and in the working tree (w); 0 is "not there",    *)
(* and equal numbers are equal contents.  Norm renumbers the versions in   *)
(* order of appearance, which keeps the state finite.                      *)
(***************************************************************************)
Max2(a, b) == IF a >= b THEN a ELSE b

Norm(r) ==
    LET h1 == IF r.h = 0 THEN 0 ELSE 1
        i1 == IF r.i = 0 THEN 0 ELSE IF r.i = r.h THEN h1 ELSE h1 + 1
        w1 == IF r.w = 0 THEN 0
              ELSE IF r.w = r.h THEN h1
              ELSE IF r.w = r.i THEN i1
              ELSE Max2(h1, i1) + 1
    IN [h |-> h1, i |-> i1, w |-> w1]

FileAbsent == [h |-> 0, i |-> 0, w |-> 0]
FileUntracked == [h |-> 0, i |-> 0, w |-> 1]
FileClean == [h |-> 1, i |-> 1, w |-> 1]
FileModified == [h |-> 1, i |-> 1, w |-> 2]

\* The file gets a content it had in neither HEAD nor the index.
WriteFile(r) == Norm([r EXCEPT !.w = 9])

\* A pattern line of .gitignore matches the path it spells (git drops the
\* blanks at the end of a pattern).
Ignored(p, text) ==
    /\ text # Absent
    /\ \E n \in 1..Len(SplitLines(text)) : RStrip(SplitLines(text)[n]) = PathText(p)

\* git ls-files <p>: the path is printed when it is in the index.
Tracked(r) == r.i # 0

\* git rm --cached <p>: refused when the path is not in the index, or when its
\* staged content matches neither HEAD nor the file.
RmCachedOk(r) == r.i # 0 /\ (r.i = r.h \/ r.i = r.w)
RmCached(r) == IF RmCachedOk(r) THEN Norm([r EXCEPT !.i = 0]) ELSE r

\* git add <p> of one named path.
AddPathOk(r) == r.w # 0 \/ r.i # 0
AddPath(r) == IF AddPathOk(r) THEN Norm([r EXCEPT !.i = r.w]) ELSE r

\* git add . : every tracked path, and every untracked path that is not ignored.
AddAll(rp, text) ==
    [p \in Paths |->
        IF rp[p].i # 0 \/ (rp[p].w # 0 /\ ~Ignored(p, text))
        THEN Norm([rp[p] EXCEPT !.i = rp[p].w])
        ELSE rp[p]]

\* git add can find that a file git status listed as modified has, once filtered
\* for the index (line endings, file mode), the content the index already holds:
\* the path is then clean and nothing is staged for it.
Renormalized(rp) ==
    [rp EXCEPT ![P_ATXT] = IF rp[P_ATXT].i # 0 /\ rp[P_ATXT].w # 0
                           THEN Norm([rp[P_ATXT] EXCEPT !.w = rp[P_ATXT].i])
                           ELSE rp[P_ATXT]]

\* git commit: there is something to commit when the index differs from HEAD.
HasStaged(rp) == \E p \in Paths : rp[p].h # rp[p].i
Commit(rp) == [p \in Paths |-> Norm([rp[p] EXCEPT !.h = rp[p].i])]

\* What git commit answers when the index equals HEAD: exit code 1, and on its
\* standard output "nothing to commit, working tree clean" when git status has
\* nothing to list, "no changes added to commit" or "nothing added to commit
\* but untracked files present" otherwise.  Standard error stays empty.
NothingToCommit(rp, text) ==
    /\ ~HasStaged(rp)
    /\ \A p \in Paths : (rp[p].w = rp[p].i) \/ (rp[p].i = 0 /\ Ignored(p, text))

\* The paths of the tree a commit of the present index records.
IndexTree(rp) == {p \in Paths : rp[p].i # 0}

\* git status --porcelain: "XY path" per changed tracked path, then "?? path"
\* per untracked path that is not ignored.
StatusX(r) == IF r.h = r.i THEN SP ELSE IF r.h = 0 THEN "A" ELSE IF r.i = 0 THEN "D" ELSE "M"
StatusY(r) == IF r.i = 0 \/ r.w = r.i THEN SP ELSE IF r.w = 0 THEN "D" ELSE "M"

RECURSIVE TrackedLines(_, _)
TrackedLines(rp, n) ==
    IF n > Len(PathOrder) THEN <<>>
    ELSE LET p == PathOrder[n]
             x == StatusX(rp[p])
             y == StatusY(rp[p])
         IN (IF x # SP \/ y # SP THEN << <<x, y, SP>> \o PathText(p) >> ELSE <<>>)
            \o TrackedLines(rp, n + 1)

RECURSIVE UntrackedLines(_, _, _)
UntrackedLines(rp, text, n) ==
    IF n > Len(PathOrder) THEN <<>>
    ELSE LET p == PathOrder[n]
         IN (IF rp[p].i = 0 /\ rp[p].w # 0 /\ ~Ignored(p, text)
             THEN << <<"?", "?", SP>> \o PathText(p) >> ELSE <<>>)
            \o UntrackedLines(rp, text, n + 1)

StatusPorcelain(rp, text) == TrackedLines(rp, 1) \o UntrackedLines(rp, text, 1)

(***************************************************************************)
(* DeployWorker.run, lines 130-131: the lines that are not blank, then the *)
(* path of every line that does not end in ".env".                         *)
(***************************************************************************)
RECURSIVE SelectSeq2(_, _)
SelectSeq2(s, n) ==
    IF n > Len(s) THEN <<>>
    ELSE (IF Strip(s[n]) # <<>> /\ ~EndsWith(s[n], S_ENV)
          THEN <<SubSeq(s[n], 4, Len(s[n]))>> ELSE <<>>) \o SelectSeq2(s, n + 1)

FilesToCommit(lines) == SelectSeq2(lines, 1)

\* Line 83: some line of .gitignore, stripped, is ".env".
GitignoreHasEnvLine(text) ==
    \E n \in 1..Len(SplitLines(text)) : Strip(SplitLines(text)[n]) = S_ENV

\* Lines 106-111: the .gitignore text after the remediation.
RemediatedGitignore(text) ==
    IF text = Absent THEN S_ENV \o <<NL>>
    ELSE IF ~Contains(text, S_ENV) THEN text \o <<NL>> \o S_ENV \o <<NL>>
    ELSE text

\* A precheck that takes .env for tracked whatever git ls-files answers.
EnvInStage_Mutant(returncode, stdout_nonempty) == TRUE

\* Line 98.
EnvInStage(returncode, stdout_nonempty) == returncode = 0 /\ stdout_nonempty

\* A branch check that lets every branch through.
BranchAllowed_Mutant(b) == TRUE

\* Line 118.
BranchAllowed(b) == b = "main"

\* Line 124.
IdentityConfigured(name) == name # ""

\* A validation that takes every answer of the endpoint for an acceptance.
TokenAccepted_Mutant(status_code) == status_code \in {200, 401}

\* Line 92.
TokenAccepted(status_code) == status_code = 200

\* Line 143.
TokenGateOpen(c) == c.token_valid

\* Line 151: the commit counts as done.
CommitAccepted(returncode, stderr_nothing) == returncode = 0 \/ stderr_nothing

\* A push whose exit code is not looked at.
PushSucceeded_Mutant(returncode) == TRUE

\* Line 158.
PushSucceeded(returncode) == returncode = 0

\* A test of the answer of Render that lets every status pass.
RedeployAccepted_Mutant(status_code) == TRUE

\* Line 171.
RedeployAccepted(status_code) == status_code \in {201, 202}

\* An integer as the f-string of line 173 writes it.
Digit(d) == <<"0", "1", "2", "3", "4", "5", "6", "7", "8", "9">>[d + 1]

RECURSIVE Decimal(_)
Decimal(n) == IF n < 10 THEN Digit(n) ELSE Decimal(n \div 10) \o Digit(n % 10)

\* The messages of finished_signal, as their pieces.
\* A branch message that leaves out the branch found.
MsgBranch_Mutant(b) == <<"Branch deve ser '", "main", "'.">>

MsgBranch(b) == <<"Branch deve ser '", "main", "', nao '", b, "'.">>
MsgIdentity == <<"Configure 'git config user.name' e 'user.email'.">>
MsgNothing == <<"Nenhuma alteracao para enviar.">>
MsgToken == <<"GITHUB_TOKEN invalido ou sem permissao.">>
MsgCommit == <<"Falha ao criar commit.">>
MsgPush == <<"Falha no git push.">>
MsgRender(status_code) == <<"Render respondeu HTTP ", Decimal(status_code)>>
MsgSuccess == <<"Deploy concluido com sucesso.">>
MsgTimeout == <<"Timeout em comando Git.">>
MsgUnexpected == <<"Erro inesperado: ">>

(***************************************************************************)
(* State.                                                                  *)
(***************************************************************************)
VARIABLES
    repo,               \* environment: path -> [h, i, w]
    gitignore,          \* environment: the text of .gitignore, or Absent
    logSize,            \* environment: size of LOG_FILE against the 2 MB limit
    branch,             \* environment: what git branch --show-current prints
    user_name,          \* environment: git config user.name
    unpushed,           \* environment: local commits origin/main does not have
    deploy_in_progress, \* DeployGUI.deploy_in_progress
    runs,               \* workers started so far
    signal,             \* finished_signal emitted and not yet delivered
    pc,                 \* position of DeployWorker.run
    github_token,       \* DeployWorker.github_token
    checks,             \* the dict checks of run
    current_branch,     \* run's current_branch
    files_to_commit,    \* run's files_to_commit
    k,                  \* files of the preview logged so far
    resp,               \* run's resp: status_code and text of the Render response
    steps,              \* observation: the steps of this run, in order
    calls,              \* observation: commands and requests issued by this run
    timed_out,          \* observation: external calls of this run that hit their timeout
    preview,            \* observation: preview events delivered by this run
    outcome,            \* observation: last finished_signal of this run
    emitted,            \* observation: finished_signal emissions of this run
    start,              \* observation: the repository when this run started
    prev,               \* observation: how the previous run ended
    deployTree,         \* observation: paths in the tree of this run's deploy commit
    reported,           \* observation: the dicts security_check_signal has emitted in this run
    log_file,           \* the lines of deploy_log.txt, oldest first
    log_sink,           \* the events log_signal has delivered, oldest first
    log_history,        \* observation: every line deploy_log.txt has held, in order
    log_dropped,        \* observation: the size of deploy_log.txt each time it was emptied
    log_n,              \* calls of DeployWorker.log so far
    log_args,           \* observation: the message of each call of DeployWorker.log
    interleaved,        \* observation: what the other handlers issued while a run was in flight
    clicks,             \* triggers of the other handlers so far
    pv_in,              \* the change set git status --porcelain lists, with the sizes on disk
    pv_out,             \* what the preview reported of it
    admin_token,        \* app.py: ADMIN_TOKEN
    orders_file,        \* app.py: the list stored in data/orders.json
    req,                \* app.py: the requests, each in its own thread
    created,            \* observation: the orders whose request was answered 201
    ps                  \* push_git5: position, $renderServiceId, repository, requests, output

envVars == <<repo, gitignore, logSize, branch, user_name, unpushed>>
guiVars == <<deploy_in_progress, runs, signal>>
wkVars == <<github_token, checks, current_branch, files_to_commit, k, resp>>
obsVars ==
    <<steps, calls, timed_out, preview, outcome, emitted, start, prev, deployTree, reported>>
runVars == <<envVars, guiVars, wkVars, obsVars, pc>>
logVars == <<log_file, log_sink, log_history, log_dropped, log_n, log_args>>
opVars == <<interleaved, clicks>>

\* What DeployWorker.run and the handlers of its signals leave alone.
pvVars == <<pv_in, pv_out>>
appVars == <<admin_token, orders_file, req, created>>
psVars == <<ps>>
sideVars == <<logVars, opVars, pvVars, appVars, psVars>>
vars == <<runVars, sideVars>>

\* What the steps of each of the other specifications leave alone.
notLogVars == <<runVars, opVars, pvVars, appVars, psVars>>
notOpVars == <<logVars, pvVars, appVars, psVars>>
notPvVars == <<runVars, logVars, opVars, appVars, psVars>>
notAppVars == <<runVars, logVars, opVars, pvVars, psVars>>
notPsVars == <<runVars, logVars, opVars, pvVars, appVars>>

\* Runs started in one behaviour.
MaxRuns == 2

Branches == {"main", "feature-x", ""}
UserNames == {"", "dev"}
TokenInputs == {"", "ghp_secret"}

NoChecks == [gitignore |-> FALSE, token_valid |-> FALSE, env_in_stage |-> FALSE]
NoOutcome == [ok |-> FALSE, msg |-> <<>>]
NoResp == [status_code |-> 0, text |-> ""]

\* Bodies the Render API answers with.
ResponseTexts(status_code) ==
    IF status_code \in {201, 202} THEN {"{\"deploy\": \"created\"}"}
    ELSE {"Internal Server Error", "{\"message\": \"service suspended\"}"}

NoPreview == [count |-> -1, files |-> <<>>, env_listed |-> FALSE]
NoStart == [env_tracked |-> FALSE, dirty |-> FALSE]
NoPrev == [ran |-> FALSE, ok |-> FALSE, msg |-> <<>>, emitted |-> 0, faults |-> FALSE]

InitRun ==
    /\ gitignore \in GitignoreTexts \cup {Absent}
    /\ \E e \in {FileAbsent, FileUntracked, FileClean},
          a \in {FileClean, FileModified},
          l \in {FileAbsent, FileUntracked} :
          repo = [p \in Paths |->
                    CASE p = P_ENV -> e
                      [] p = P_GITIGNORE -> IF gitignore = Absent THEN FileAbsent ELSE FileClean
                      [] p = LOG_FILE -> l
                      [] OTHER -> a]
    /\ logSize \in IF repo[LOG_FILE].w = 0 THEN {"small"} ELSE {"near", "over"}
    /\ branch \in Branches
    /\ user_name \in UserNames
    /\ unpushed = FALSE
    /\ deploy_in_progress = FALSE
    /\ runs = 0
    /\ signal = FALSE
    /\ pc = "idle"
    /\ github_token = ""
    /\ checks = NoChecks
    /\ current_branch = ""
    /\ files_to_commit = <<>>
    /\ k = 0
    /\ resp = NoResp
    /\ steps = <<>>
    /\ calls = {}
    /\ timed_out = {}
    /\ preview = NoPreview
    /\ outcome = NoOutcome
    /\ emitted = 0
    /\ start = NoStart
    /\ prev = NoPrev
    /\ deployTree = {}
    /\ reported = <<>>

\* No call of DeployWorker.log followed as text.
LogIdle ==
    /\ log_file = <<>>
    /\ log_sink = <<>>
    /\ log_history = <<>>
    /\ log_dropped = <<>>
    /\ log_n = 0
    /\ log_args = <<>>

\* No handler other than start_commit_push has been triggered.
OpIdle == interleaved = {} /\ clicks = 0

\* No preview followed with its sizes.
NoReport == [count |-> -1, kb |-> -1, files |-> <<>>]
PvIdle == pv_in = <<>> /\ pv_out = NoReport

\* Requests of the storefront (src/app.py) in one behaviour.
MaxRequests == 2
Req == 1..MaxRequests

NoOrder == [order_id |-> "", by |-> 0, status |-> "", sent |-> FALSE, history |-> <<>>]
IdleReq ==
    [kind |-> "", pc |-> "idle", token |-> "", order_id |-> "", new_status |-> "",
     order |-> NoOrder, local |-> <<>>, resp |-> 0, writes |-> 0]

\* The storefront has served no request.
AppIdle ==
    /\ admin_token = ""
    /\ orders_file = <<>>
    /\ req = [r \in Req |-> IdleReq]
    /\ created = {}

\* The script push_git5 at its first line.
PsStart(service_id, git, origin) ==
    [pc |-> "1", renderServiceId |-> service_id, git |-> git, origin |-> origin,
     pushed |-> FALSE, requests |-> <<>>, out |-> <<>>, exit |-> -1]

\* The script is not run.
PsIdle == ps = PsStart("", FALSE, FALSE)

\* The text of the log is left out of the runs (see SpecLog), and so are the
\* buttons other than the deploy button (see SpecGui), the sizes of the
\* preview (see SpecPreview), the storefront (see SpecApp) and the deploy
\* script (see SpecPs).
Init ==
    /\ InitRun
    /\ LogIdle
    /\ OpIdle
    /\ PvIdle
    /\ AppIdle
    /\ PsIdle

(***************************************************************************)
(* DeployGUI.start_commit_push and DeployGUI.on_deploy_finished.           *)
(***************************************************************************)
\* git status --porcelain prints something the filter of line 131 keeps.
Dirty(rp, text) == FilesToCommit(StatusPorcelain(rp, text)) # <<>>

\* A trigger that looks at the token only.
StartRefused_Mutant(in_progress, token) == token = ""

\* Lines 486-495: the trigger returns without starting a worker.
StartRefused(in_progress, token) == in_progress \/ token = ""

start_commit_push ==
    /\ runs < MaxRuns
    /\ \E token \in TokenInputs :
          /\ ~StartRefused(deploy_in_progress, token)
          /\ github_token' = token
    /\ deploy_in_progress' = TRUE
    /\ runs' = runs + 1
    /\ pc' = "L77"
    /\ checks' = NoChecks
    /\ current_branch' = ""
    /\ files_to_commit' = <<>>
    /\ k' = 0
    /\ resp' = NoResp
    /\ steps' = <<>>
    /\ calls' = {}
    /\ timed_out' = {}
    /\ preview' = NoPreview
    /\ outcome' = NoOutcome
    /\ emitted' = 0
    /\ start' = [env_tracked |-> Tracked(repo[P_ENV]), dirty |-> Dirty(repo, gitignore)]
    /\ prev' = [ran |-> runs > 0, ok |-> outcome.ok, msg |-> outcome.msg,
                emitted |-> emitted,
                faults |-> \E n \in 1..Len(steps) : steps[n].res # "ok"]
    /\ deployTree' = {}
    /\ reported' = <<>>
    /\ UNCHANGED <<envVars, signal>>
    /\ UNCHANGED sideVars

\* A handler that starts the sequence again when the outcome is a failure.
on_deploy_finished_Mutant ==
    /\ signal
    /\ signal' = FALSE
    /\ deploy_in_progress' = outcome.ok
    /\ pc' = IF outcome.ok THEN pc ELSE "L77"
    /\ UNCHANGED <<envVars, runs, wkVars, obsVars>>
    /\ UNCHANGED sideVars

\* Lines 682-695: the outcome is shown; nothing is started.
on_deploy_finished ==
    /\ signal
    /\ signal' = FALSE
    /\ deploy_in_progress' = FALSE
    /\ UNCHANGED <<envVars, runs, wkVars, obsVars, pc>>
    /\ UNCHANGED sideVars

(***************************************************************************)
(* append_log_file, lines 40-49, as DeployWorker.log calls it (line 69).   *)
(* Lines 42-43 stand outside the try: when LOG_FILE is over the limit the  *)
(* truncating open either empties the file or raises.  The appending open  *)
(* of line 46 is inside the try: its failure is swallowed.                 *)
(***************************************************************************)
LogOver == repo[LOG_FILE].w # 0 /\ logSize = "over"

append_log_file(to, onRaise) ==
    \/ /\ LogOver
       /\ pc' = onRaise
       /\ UNCHANGED <<repo, logSize>>
    \/ /\ pc' = to
       /\ \E written \in BOOLEAN :
            LET r0 == IF LogOver THEN WriteFile(repo[LOG_FILE]) ELSE repo[LOG_FILE]
                s0 == IF LogOver THEN "small" ELSE logSize
            IN /\ repo' = [repo EXCEPT ![LOG_FILE] = IF written THEN WriteFile(r0) ELSE r0]
               /\ logSize' \in IF written /\ s0 = "near" THEN {"near", "over"} ELSE {s0}

\* self.log(...) in the body of the try: an exception goes to line 185.
LogStep(to) ==
    /\ append_log_file(to, "L186")
    /\ UNCHANGED <<gitignore, branch, user_name, unpushed, guiVars, wkVars, obsVars>>

\* self.log(...) followed by self.finished_signal.emit(ok, msg) and the return.
LogFinish(onRaise, ok, msg) ==
    /\ append_log_file("done", onRaise)
    /\ IF pc' = "done"
       THEN /\ signal' = TRUE
            /\ outcome' = [ok |-> ok, msg |-> msg]
            /\ emitted' = emitted + 1
       ELSE UNCHANGED <<signal, outcome, emitted>>
    /\ UNCHANGED <<gitignore, branch, user_name, unpushed, deploy_in_progress, runs,
                   wkVars, steps, calls, timed_out, preview, start, prev, reported, deployTree>>

\* A step and how it went: "ok", "failed" (the command or request answered with
\* a failure), "raised" (a timeout or an exception), and for the deploy commit
\* "nothing" (exit code 1 with "nothing to commit" in the output).
Res(ok) == IF ok THEN "ok" ELSE "failed"
Step(name, res) == Append(steps, [step |-> name, res |-> res])

\* The exit codes a git command can end with.
ReturnCodes == {0, 128}

(***************************************************************************)
(* DeployWorker.run, lines 75-114: the prechecks and the remediation.      *)
(***************************************************************************)
L77_log_inicio ==
    /\ pc = "L77"
    /\ LogStep("L79")
    /\ UNCHANGED sideVars

L79_gitignore_check ==
    /\ pc = "L79"
    /\ \/ /\ gitignore = Absent
          /\ pc' = "L86"
          /\ steps' = Step("Precheck.ignore", "ok")
          /\ UNCHANGED checks
       \/ /\ gitignore # Absent
          /\ checks' = [checks EXCEPT !.gitignore = GitignoreHasEnvLine(gitignore)]
          /\ pc' = "L88"
          /\ steps' = Step("Precheck.ignore", "ok")
       \/ /\ gitignore # Absent       \* read_text raises
          /\ pc' = "L186"
          /\ steps' = Step("Precheck.ignore", "raised")
          /\ UNCHANGED checks
    /\ UNCHANGED <<envVars, guiVars, github_token, current_branch, files_to_commit, k,
                   resp, calls, timed_out, preview, outcome, emitted, start, prev, reported,
                   deployTree>>
    /\ UNCHANGED sideVars

L86_log_aviso ==
    /\ pc = "L86"
    /\ LogStep("L88")
    /\ UNCHANGED sideVars

L88_validate_token ==
    /\ pc = "L88"
    /\ IF github_token # ""
       THEN /\ calls' = calls \cup {"gh_validate"}
            /\ \/ \E status_code \in {200, 401} :
                     /\ checks' = [checks EXCEPT
                                      !.token_valid = TokenAccepted(status_code)]
                     /\ steps' = Step("Precheck.credential", Res(status_code = 200))
                     /\ UNCHANGED timed_out
               \/ \E timeout \in BOOLEAN :    \* requests raises, line 94 catches
                     /\ checks' = [checks EXCEPT !.token_valid = FALSE]
                     /\ steps' = Step("Precheck.credential", "failed")
                     /\ timed_out' = IF timeout THEN timed_out \cup {"gh_validate"}
                                     ELSE timed_out
       ELSE /\ steps' = Step("Precheck.credential", "failed")
            /\ UNCHANGED <<calls, timed_out, checks>>
    /\ pc' = "L97"
    /\ UNCHANGED <<envVars, guiVars, github_token, current_branch, files_to_commit, k,
                   resp, preview, outcome, emitted, start, prev, reported, deployTree>>
    /\ UNCHANGED sideVars

L97_ls_files ==
    /\ pc = "L97"
    /\ \/ /\ pc' = "L180"             \* subprocess.TimeoutExpired
          /\ steps' = Step("Precheck.tracked", "raised")
          /\ UNCHANGED checks
       \/ \E returncode \in ReturnCodes :
            /\ checks' = [checks EXCEPT !.env_in_stage =
                             EnvInStage(returncode, returncode = 0 /\ Tracked(repo[P_ENV]))]
            /\ steps' = Step("Precheck.tracked", Res(returncode = 0))
            /\ pc' = "L101"
    /\ UNCHANGED <<envVars, guiVars, github_token, current_branch, files_to_commit, k,
                   resp, calls, timed_out, preview, outcome, emitted, start, prev, reported,
                   deployTree>>
    /\ UNCHANGED sideVars

L101_security_check_signal ==
    /\ pc = "L101"
    /\ reported' = Append(reported, checks)
    /\ pc' = IF checks.env_in_stage THEN "L104" ELSE "L116"
    /\ UNCHANGED <<envVars, guiVars, wkVars, steps, calls, timed_out, preview, outcome,
                   emitted, start, prev, deployTree>>
    /\ UNCHANGED sideVars

L104_log_acao ==
    /\ pc = "L104"
    /\ LogStep("L105")
    /\ UNCHANGED sideVars

L105_rm_cached ==
    /\ pc = "L105"
    /\ calls' = calls \cup {"rm_cached"}
    /\ UNCHANGED timed_out
    /\ \/ /\ pc' = "L180"
          /\ steps' = Step("Remediate.rm", "raised")
          /\ UNCHANGED repo
       \/ \E returncode \in ReturnCodes :
            LET done == returncode = 0 /\ RmCachedOk(repo[P_ENV])
            IN /\ repo' = IF done THEN [repo EXCEPT ![P_ENV] = RmCached(repo[P_ENV])]
                          ELSE repo
               /\ steps' = Step("Remediate.rm", Res(done))
               /\ pc' = "L106"
    /\ UNCHANGED <<gitignore, logSize, branch, user_name, unpushed, guiVars, wkVars,
                   preview, outcome, emitted, start, prev, reported, deployTree>>
    /\ UNCHANGED sideVars

L106_write_gitignore ==
    /\ pc = "L106"
    /\ \/ /\ pc' = "L186"             \* read_text or write_text raises
          /\ steps' = Step("Remediate.ignore", "raised")
          /\ UNCHANGED <<repo, gitignore>>
       \/ /\ gitignore' = RemediatedGitignore(gitignore)
          /\ repo' = IF gitignore' = gitignore THEN repo
                     ELSE [repo EXCEPT ![P_GITIGNORE] = WriteFile(repo[P_GITIGNORE])]
          /\ steps' = Step("Remediate.ignore", "ok")
          /\ pc' = "L112"
    /\ UNCHANGED <<logSize, branch, user_name, unpushed, guiVars, wkVars, calls, timed_out,
                   preview, outcome, emitted, start, prev, reported, deployTree>>
    /\ UNCHANGED sideVars

L112_add_gitignore ==
    /\ pc = "L112"
    /\ \/ /\ pc' = "L180"
          /\ steps' = Step("Remediate.add", "raised")
          /\ UNCHANGED repo
       \/ \E returncode \in ReturnCodes :
            LET done == returncode = 0 /\ AddPathOk(repo[P_GITIGNORE])
            IN /\ repo' = IF done
                          THEN [repo EXCEPT ![P_GITIGNORE] = AddPath(repo[P_GITIGNORE])]
                          ELSE repo
               /\ steps' = Step("Remediate.add", Res(done))
               /\ pc' = "L113"
    /\ UNCHANGED <<gitignore, logSize, branch, user_name, unpushed, guiVars, wkVars,
                   calls, timed_out, preview, outcome, emitted, start, prev, reported, deployTree>>
    /\ UNCHANGED sideVars

L113_commit_fix ==
    /\ pc = "L113"
    /\ calls' = calls \cup {"fix_commit"}
    /\ UNCHANGED timed_out
    /\ \/ /\ pc' = "L180"
          /\ steps' = Step("Remediate.commit", "raised")
          /\ UNCHANGED <<repo, unpushed>>
       \/ \E returncode \in ReturnCodes :
            LET done == returncode = 0 /\ HasStaged(repo)
            IN /\ repo' = IF done THEN Commit(repo) ELSE repo
               /\ unpushed' = (unpushed \/ done)
               /\ steps' = Step("Remediate.commit", Res(done))
               /\ pc' = "L114"
    /\ UNCHANGED <<gitignore, logSize, branch, user_name, guiVars, wkVars,
                   preview, outcome, emitted, start, prev, reported, deployTree>>
    /\ UNCHANGED sideVars

L114_log_ok ==
    /\ pc = "L114"
    /\ LogStep("L116")
    /\ UNCHANGED sideVars

(***************************************************************************)
(* DeployWorker.run, lines 116-146: branch, identity, preview, token gate. *)
(***************************************************************************)
L116_branch_check ==
    /\ pc = "L116"
    /\ \/ /\ pc' = "L180"
          /\ steps' = Step("BranchCheck", "raised")
          /\ UNCHANGED current_branch
       \/ \E returncode \in ReturnCodes :
            /\ current_branch' = IF returncode = 0 THEN branch ELSE ""
            /\ steps' = Step("BranchCheck", Res(current_branch' = "main"))
            /\ pc' = IF BranchAllowed(current_branch') THEN "L123" ELSE "L119"
    /\ UNCHANGED <<envVars, guiVars, github_token, checks, files_to_commit, k,
                   resp, calls, timed_out, preview, outcome, emitted, start, prev, reported,
                   deployTree>>
    /\ UNCHANGED sideVars

L119_branch_abort ==
    /\ pc = "L119"
    /\ LogFinish("L186", FALSE, MsgBranch(current_branch))
    /\ UNCHANGED sideVars

L123_identity_check ==
    /\ pc = "L123"
    /\ \/ /\ pc' = "L180"
          /\ steps' = Step("IdentityCheck", "raised")
       \/ /\ steps' = Step("IdentityCheck", Res(user_name # ""))
          /\ pc' = IF IdentityConfigured(user_name) THEN "L129" ELSE "L125"
    /\ UNCHANGED <<envVars, guiVars, wkVars, calls, timed_out, preview, outcome, emitted, start,
                   prev, reported, deployTree>>
    /\ UNCHANGED sideVars

L125_identity_abort ==
    /\ pc = "L125"
    /\ LogFinish("L186", FALSE, MsgIdentity)
    /\ UNCHANGED sideVars

L129_status ==
    /\ pc = "L129"
    /\ \/ /\ pc' = "L180"
          /\ steps' = Step("Preview", "raised")
          /\ UNCHANGED <<files_to_commit, preview>>
       \/ \E returncode \in ReturnCodes :
            LET lines == IF returncode = 0 THEN StatusPorcelain(repo, gitignore) ELSE <<>>
            IN /\ files_to_commit' = FilesToCommit(lines)
               /\ preview' = [preview EXCEPT !.env_listed =
                                 \E n \in 1..Len(lines) :
                                    SubSeq(lines[n], 4, Len(lines[n])) = S_ENV]
               /\ steps' = Step("Preview", Res(returncode = 0))
               /\ pc' = IF files_to_commit' = <<>> THEN "L135" ELSE "L139"
    /\ UNCHANGED <<envVars, guiVars, github_token, checks, current_branch, k,
                   resp, calls, timed_out, outcome, emitted, start, prev, reported,
                   deployTree>>
    /\ UNCHANGED sideVars

L135_nothing_to_do ==
    /\ pc = "L135"
    /\ LogFinish("L186", TRUE, MsgNothing)
    /\ UNCHANGED sideVars

\* Line 68 delivers the event to the sink before line 69 writes the log file.
L139_log_preview ==
    /\ pc = "L139"
    /\ append_log_file("L140", "L186")
    /\ preview' = [preview EXCEPT !.count = Len(files_to_commit)]
    /\ UNCHANGED <<gitignore, branch, user_name, unpushed, guiVars, wkVars, steps, calls, timed_out,
                   outcome, emitted, start, prev, reported, deployTree>>
    /\ UNCHANGED sideVars

\* files_to_commit[:200]
PreviewLimit == 200

L140_log_file ==
    /\ pc = "L140"
    /\ k < Len(files_to_commit) /\ k < PreviewLimit
    /\ append_log_file("L140", "L186")
    /\ preview' = [preview EXCEPT !.files = Append(@, files_to_commit[k + 1])]
    /\ k' = k + 1
    /\ UNCHANGED <<gitignore, branch, user_name, unpushed, guiVars, github_token, checks,
                   current_branch, files_to_commit, resp, steps, calls, timed_out,
                   outcome, emitted, start, prev, reported, deployTree>>
    /\ UNCHANGED sideVars

L143_token_gate ==
    /\ pc = "L140"
    /\ ~(k < Len(files_to_commit) /\ k < PreviewLimit)
    /\ steps' = Step("TokenGate", Res(checks.token_valid))
    /\ pc' = IF TokenGateOpen(checks) THEN "L148" ELSE "L144"
    /\ UNCHANGED <<envVars, guiVars, wkVars, calls, timed_out, preview, outcome, emitted, start,
                   prev, reported, deployTree>>
    /\ UNCHANGED sideVars

L144_token_abort ==
    /\ pc = "L144"
    /\ LogFinish("L186", FALSE, MsgToken)
    /\ UNCHANGED sideVars

(***************************************************************************)
(* DeployWorker.run, lines 148-177: commit, push, redeploy.                *)
(***************************************************************************)
L148_log_git ==
    /\ pc = "L148"
    /\ LogStep("L149")
    /\ UNCHANGED sideVars

L149_add_all ==
    /\ pc = "L149"
    /\ calls' = calls \cup {"add_all"}
    /\ UNCHANGED timed_out
    /\ \/ /\ pc' = "L180"
          /\ UNCHANGED repo
       \/ \E returncode \in ReturnCodes :
            /\ repo' = IF returncode = 0 THEN AddAll(repo, gitignore) ELSE repo
            /\ pc' = "L150"
       \/ /\ Renormalized(repo) # repo
          /\ repo' = AddAll(Renormalized(repo), gitignore)
          /\ pc' = "L150"
    /\ UNCHANGED <<gitignore, logSize, branch, user_name, unpushed, guiVars, wkVars,
                   steps, preview, outcome, emitted, start, prev, reported, deployTree>>
    /\ UNCHANGED sideVars

\* git commit prints "nothing to commit" on its standard output and exits 1:
\* commit_res.stderr does not hold the words line 151 looks for.
L150_commit ==
    /\ pc = "L150"
    /\ calls' = calls \cup {"deploy_commit"}
    /\ UNCHANGED timed_out
    /\ \/ /\ pc' = "L180"
          /\ steps' = Step("Commit", "raised")
          /\ UNCHANGED <<repo, unpushed, deployTree>>
       \/ \E returncode \in IF HasStaged(repo) THEN ReturnCodes ELSE {1} :
            LET accepted == CommitAccepted(returncode, FALSE)
            IN /\ repo' = IF returncode = 0 THEN Commit(repo) ELSE repo
               /\ unpushed' = (unpushed \/ returncode = 0)
               /\ deployTree' = IF returncode = 0 THEN IndexTree(repo) ELSE deployTree
               /\ steps' = Step("Commit",
                                 IF returncode = 1 /\ NothingToCommit(repo, gitignore)
                                 THEN "nothing" ELSE Res(returncode = 0))
               /\ pc' = IF accepted THEN "L156" ELSE "L152"
    /\ UNCHANGED <<gitignore, logSize, branch, user_name, guiVars, wkVars,
                   preview, outcome, emitted, start, prev, reported>>
    /\ UNCHANGED sideVars

L152_commit_abort ==
    /\ pc = "L152"
    /\ LogFinish("L186", FALSE, MsgCommit)
    /\ UNCHANGED sideVars

L156_log_push ==
    /\ pc = "L156"
    /\ LogStep("L157")
    /\ UNCHANGED sideVars

L157_push ==
    /\ pc = "L157"
    /\ calls' = calls \cup {"push"}
    /\ \/ /\ pc' = "L180"
          /\ steps' = Step("Push", "raised")
          /\ timed_out' = timed_out \cup {"push"}
          /\ UNCHANGED unpushed
       \/ \E returncode \in ReturnCodes :
            /\ unpushed' = IF returncode = 0 THEN FALSE ELSE unpushed
            /\ steps' = Step("Push", Res(returncode = 0))
            /\ pc' = IF PushSucceeded(returncode) THEN "L162" ELSE "L159"
            /\ UNCHANGED timed_out
    /\ UNCHANGED <<repo, gitignore, logSize, branch, user_name, guiVars, wkVars,
                   preview, outcome, emitted, start, prev, reported, deployTree>>
    /\ UNCHANGED sideVars

L159_push_abort ==
    /\ pc = "L159"
    /\ LogFinish("L186", FALSE, MsgPush)
    /\ UNCHANGED sideVars

L162_log_push_ok ==
    /\ pc = "L162"
    /\ LogStep("L164")
    /\ UNCHANGED sideVars

L164_log_render ==
    /\ pc = "L164"
    /\ LogStep("L166")
    /\ UNCHANGED sideVars

L166_redeploy ==
    /\ pc = "L166"
    /\ calls' = calls \cup {"redeploy"}
    /\ \/ \E timeout \in BOOLEAN :       \* requests raises
            /\ pc' = "L186"
            /\ steps' = Step("Redeploy", "raised")
            /\ timed_out' = IF timeout THEN timed_out \cup {"redeploy"} ELSE timed_out
            /\ UNCHANGED resp
       \/ \E status_code \in {201, 202, 500} :
            /\ \E text \in ResponseTexts(status_code) :
                  resp' = [status_code |-> status_code, text |-> text]
            /\ steps' = Step("Redeploy", Res(status_code \in {201, 202}))
            /\ pc' = IF RedeployAccepted(status_code) THEN "L175" ELSE "L172"
            /\ UNCHANGED timed_out
    /\ UNCHANGED <<envVars, guiVars, github_token, checks, current_branch,
                   files_to_commit, k, preview, outcome, emitted, start, prev, reported,
                   deployTree>>
    /\ UNCHANGED sideVars

L172_render_abort ==
    /\ pc = "L172"
    /\ LogFinish("L186", FALSE, MsgRender(resp.status_code))
    /\ UNCHANGED sideVars

L175_log_redeploy_ok ==
    /\ pc = "L175"
    /\ LogStep("L176")
    /\ UNCHANGED sideVars

L176_success ==
    /\ pc = "L176"
    /\ LogFinish("L186", TRUE, MsgSuccess)
    /\ UNCHANGED sideVars

(***************************************************************************)
(* DeployWorker.run, lines 179-187: the handlers.  subprocess.run is       *)
(* called without check=True, so CalledProcessError (line 182) is never    *)
(* raised.  An exception raised by self.log inside a handler leaves run.   *)
(***************************************************************************)
L180_timeout_handler ==
    /\ pc = "L180"
    /\ LogFinish("crashed", FALSE, MsgTimeout)
    /\ UNCHANGED sideVars

L186_exception_handler ==
    /\ pc = "L186"
    /\ LogFinish("crashed", FALSE, MsgUnexpected)
    /\ UNCHANGED sideVars

Next ==
    \/ start_commit_push
    \/ on_deploy_finished
    \/ L77_log_inicio
    \/ L79_gitignore_check
    \/ L86_log_aviso
    \/ L88_validate_token
    \/ L97_ls_files
    \/ L101_security_check_signal
    \/ L104_log_acao
    \/ L105_rm_cached
    \/ L106_write_gitignore
    \/ L112_add_gitignore
    \/ L113_commit_fix
    \/ L114_log_ok
    \/ L116_branch_check
    \/ L119_branch_abort
    \/ L123_identity_check
    \/ L125_identity_abort
    \/ L129_status
    \/ L135_nothing_to_do
    \/ L139_log_preview
    \/ L140_log_file
    \/ L143_token_gate
    \/ L144_token_abort
    \/ L148_log_git
    \/ L149_add_all
    \/ L150_commit
    \/ L152_commit_abort
    \/ L156_log_push
    \/ L157_push
    \/ L159_push_abort
    \/ L162_log_push_ok
    \/ L164_log_render
    \/ L166_redeploy
    \/ L172_render_abort
    \/ L175_log_redeploy_ok
    \/ L176_success
    \/ L180_timeout_handler
    \/ L186_exception_handler

Spec == Init /\ [][Next]_vars

(***************************************************************************)
(* The other buttons of DeployGUI.  start_redeploy (lines 506-531) and     *)
(* backup_and_clean_history (lines 557-621) run in the GUI thread.  The    *)
(* worker is a QThread, so a run goes on while they execute, and neither   *)
(* of them reads deploy_in_progress.  Their early returns (no key, no      *)
(* .git, git-filter-repo missing, the question answered with No, the       *)
(* mirror clone failing) change nothing and are left out.                  *)
(***************************************************************************)
\* The thread of DeployWorker.run is between its first and its last line.
Running == pc \notin {"idle", "done", "crashed"}

\* render_field.text().strip()
RenderKeys == {"", "rnd_key"}

\* Triggers of the two handlers in one behaviour.
MaxClicks == 1

\* Lines 506-531: the request of line 514 is sent when a key is there.
start_redeploy ==
    /\ clicks < MaxClicks
    /\ clicks' = clicks + 1
    /\ \E key \in RenderKeys : key # ""
    /\ interleaved' = IF Running THEN interleaved \cup {"redeploy"} ELSE interleaved
    /\ UNCHANGED <<runVars, notOpVars>>

\* git filter-repo --path .env --invert-paths --force: .env leaves every
\* commit, then the index and the working tree are reset to the new HEAD
\* (git reset --hard): a tracked path gets the content HEAD has of it, or is
\* removed when HEAD has none; an untracked path stays.
FilterRepo(rp) ==
    [p \in Paths |->
        LET r == rp[p]
            h1 == IF p = P_ENV THEN 0 ELSE r.h
        IN Norm([h |-> h1, i |-> h1, w |-> IF r.i # 0 \/ r.h # 0 THEN h1 ELSE r.w])]

\* Lines 557-621, the question answered with Yes.  The model keeps one text
\* of .gitignore, that of the working tree: the handler is followed where the
\* reset leaves that text or removes the file.
backup_and_clean_history ==
    /\ clicks < MaxClicks
    /\ clicks' = clicks + 1
    /\ ~(repo[P_GITIGNORE].h # 0 /\ repo[P_GITIGNORE].w # repo[P_GITIGNORE].h)
    /\ \E returncode \in ReturnCodes :
          /\ repo' = IF returncode = 0 THEN FilterRepo(repo) ELSE repo
          /\ gitignore' = IF returncode = 0 /\ repo[P_GITIGNORE].h = 0
                             /\ repo[P_GITIGNORE].i # 0
                          THEN Absent ELSE gitignore
          /\ unpushed' = (unpushed \/ (returncode = 0 /\ repo[P_ENV].h # 0))
    /\ interleaved' = IF Running THEN interleaved \cup {"filter_repo"} ELSE interleaved
    /\ UNCHANGED <<logSize, branch, user_name, guiVars, wkVars, obsVars, pc, notOpVars>>

InitGui ==
    /\ InitRun
    /\ gitignore = Absent
    /\ repo[P_ENV] = FileClean
    /\ repo[LOG_FILE] = FileAbsent
    /\ branch \in {"main", "feature-x"}
    /\ LogIdle
    /\ OpIdle
    /\ PvIdle
    /\ AppIdle
    /\ PsIdle

NextGui ==
    \/ Next
    \/ start_redeploy
    \/ backup_and_clean_history

SpecGui == InitGui /\ [][NextGui]_vars

(***************************************************************************)
(* The text of the log.  DeployWorker.log (lines 63-69) hands every        *)
(* message to log_signal, masked when it names a secret, and to            *)
(* append_log_file (lines 40-49), which empties deploy_log.txt once it     *)
(* holds more than 2,000,000 bytes and then appends "<timestamp> <msg>".   *)
(* A file that is not there and a file without lines behave alike.         *)
(***************************************************************************)
\* The value of GITHUB_TOKEN.
SECRET ==
    <<"g", "h", "p", "_", "s", "e", "c", "r", "e", "t">>

KW_GITHUB_TOKEN ==
    <<"G", "I", "T", "H", "U", "B", "_", "T", "O", "K", "E", "N">>

KW_RENDER_API_KEY ==
    <<"R", "E", "N", "D", "E", "R", "_", "A", "P", "I", "_", "K", "E", "Y">>

KW_TOKEN ==
    <<"t", "o", "k", "e", "n">>

\* Line 66.
Keywords == {KW_GITHUB_TOKEN, KW_RENDER_API_KEY, KW_TOKEN}

\* Line 67.
MASKED ==
    <<"[", "S", "E", "G", "R", "E", "D", "O", "]", " ", "T", "o", "k", "e",
      "n", " ", "o", "c", "u", "l", "t", "a", "d", "o", " ", "p", "o", "r",
      " ", "s", "e", "g", "u", "r", "a", "n", "c", "a">>

\* Line 77.
MSG_INICIO ==
    <<"[", "I", "N", "I", "C", "I", "O", "]", " ", "I", "n", "i", "c", "i",
      "a", "n", "d", "o", " ", "d", "e", "p", "l", "o", "y", " ", "s", "e",
      "g", "u", "r", "o", ".", ".", ".">>

\* Line 159: the message ends with what git push wrote to standard error.
MSG_PUSH ==
    <<"[", "E", "R", "R", "O", "]", " ", "P", "u", "s", "h", " ", "f", "a",
      "l", "h", "o", "u", ":", " ">>

ERR_REJECTED ==
    <<"!", " ", "[", "r", "e", "j", "e", "c", "t", "e", "d", "]", " ", "m",
      "a", "i", "n", " ", "-", ">", " ", "m", "a", "i", "n", " ", "(", "f",
      "e", "t", "c", "h", " ", "f", "i", "r", "s", "t", ")">>

\* The remote URL holds the token, and git quotes the URL.
ERR_URL ==
    <<"f", "a", "t", "a", "l", ":", " ", "u", "n", "a", "b", "l", "e", " ",
      "t", "o", " ", "a", "c", "c", "e", "s", "s", " ", "'", "h", "t", "t",
      "p", "s", ":", "/", "/">>
    \o SECRET \o
    <<"@", "g", "i", "t", "h", "u", "b", ".", "c", "o", "m", "/", "u", "/",
      "r", ".", "g", "i", "t", "/", "'">>

ERR_AUTH ==
    <<"r", "e", "m", "o", "t", "e", ":", " ", "I", "n", "v", "a", "l", "i",
      "d", " ", "u", "s", "e", "r", "n", "a", "m", "e", " ", "o", "r", " ",
      "t", "o", "k", "e", "n", ".", " ", "f", "a", "t", "a", "l", ":", " ",
      "A", "u", "t", "h", "e", "n", "t", "i", "c", "a", "t", "i", "o", "n",
      " ", "f", "a", "i", "l", "e", "d", " ", "f", "o", "r", " ", "'", "h",
      "t", "t", "p", "s", ":", "/", "/">>
    \o SECRET \o
    <<"@", "g", "i", "t", "h", "u", "b", ".", "c", "o", "m", "/", "u", "/",
      "r", ".", "g", "i", "t", "/", "'">>

\* More text than line 159 lets through.
Repeat(c, n) == [m \in 1..n |-> c]

ERR_LONG == <<"e", "r", "r", "o", "r", ":", " ">> \o Repeat("x", 900) \o <<NL>>

\* What git push writes to standard error when it fails.
PushStderrs == {ERR_REJECTED \o <<NL>>, ERR_URL \o <<NL>>, ERR_AUTH \o <<NL>>, ERR_LONG}

\* s[:n]
FirstChars(s, n) == SubSeq(s, 1, IF Len(s) < n THEN Len(s) ELSE n)

\* Line 159: f"[ERRO] Push falhou: {push_proc.stderr.strip()[:800]}"
PushError(stderr) == MSG_PUSH \o FirstChars(Strip(stderr), 800)

LogMessages == {MSG_INICIO} \cup {PushError(stderr) : stderr \in PushStderrs}

\* Lines 65-67: clean_msg.
clean_msg(msg) == IF \E kw \in Keywords : Contains(msg, kw) THEN MASKED ELSE msg

\* Line 42: the limit of the log file, in bytes.
LogLimit == 2000000

\* Lines 44 and 47: "%Y-%m-%d %H:%M:%S" is 19 characters, then a blank, the
\* message and a line feed.
LogLine(line) == [size |-> Len(line) + 21, text |-> line]

RECURSIVE FileSize(_)
FileSize(file) == IF file = <<>> THEN 0 ELSE Head(file).size + FileSize(Tail(file))

\* A limit that every file with a line in it exceeds.
LogTooBig_Mutant(file) == file # <<>>

\* Line 42.
LogTooBig(file) == file # <<>> /\ FileSize(file) > LogLimit

\* What deploy_log.txt holds from earlier sessions, as one block of lines.
OLD ==
    <<"(", "e", "a", "r", "l", "i", "e", "r", " ", "l", "i", "n", "e", "s",
      ")">>

OldFiles == {<<>>} \cup {<<[size |-> n, text |-> OLD]>> : n \in {1999990, 2000001}}

\* Calls of DeployWorker.log in one behaviour.
MaxLogCalls == 3

InitLog ==
    /\ InitRun
    /\ gitignore = Absent
    /\ \A p \in Paths : repo[p] = IF p = P_ATXT THEN FileClean ELSE FileAbsent
    /\ branch = "main"
    /\ user_name = "dev"
    /\ log_file \in OldFiles
    /\ log_sink = <<>>
    /\ log_history = log_file
    /\ log_dropped = <<>>
    /\ log_n = 0
    /\ log_args = <<>>
    /\ OpIdle
    /\ PvIdle
    /\ AppIdle
    /\ PsIdle

\* One call of DeployWorker.log.  fault is "none", "append" (the open of line 46
\* or the write fails: lines 48-49 swallow it) or "truncate" (getsize or the
\* open of line 43 raises: nothing catches it, the file stays as it is).
log(msg, fault) ==
    LET big == LogTooBig(log_file)
        emptied == big /\ fault # "truncate"
        f0 == IF emptied THEN <<>> ELSE log_file
    IN /\ log_n < MaxLogCalls
       /\ fault = "truncate" => big
       /\ log_n' = log_n + 1
       /\ log_args' = Append(log_args, msg)
       /\ log_sink' = Append(log_sink, clean_msg(msg))
       /\ log_file' = IF fault = "none" THEN Append(f0, LogLine(msg)) ELSE f0
       /\ log_history' = IF fault = "none" THEN Append(log_history, LogLine(msg))
                         ELSE log_history
       /\ log_dropped' = IF emptied THEN Append(log_dropped, FileSize(log_file))
                         ELSE log_dropped
       /\ UNCHANGED notLogVars

log_written ==
    /\ \E msg \in LogMessages : log(msg, "none")

log_append_swallowed ==
    /\ \E msg \in LogMessages : log(msg, "append")

log_truncate_raised ==
    /\ \E msg \in LogMessages : log(msg, "truncate")

NextLog ==
    \/ log_written
    \/ log_append_swallowed
    \/ log_truncate_raised

SpecLog == InitLog /\ [][NextLog]_vars

(***************************************************************************)
(* The preview, lines 129-141, with the sizes of the files: the count and  *)
(* the total of the message of line 139, the paths of lines 140-141.       *)
(***************************************************************************)
\* Changed paths: the line git status --porcelain prints for the path, its
\* size on disk in bytes, and whether Path(f).exists().
ChangedFiles ==
    { [line |-> <<" ", "M", " ", "a", ".", "t", "x", "t">>, size |-> 100, exists |-> TRUE],
      [line |-> <<" ", "M", " ", "b", ".", "t", "x", "t">>, size |-> 50, exists |-> TRUE],
      [line |-> <<" ", "M", " ", "b", "i", "g", ".", "b", "i", "n">>, size |-> 4096,
       exists |-> TRUE],
      [line |-> <<" ", "D", " ", "g", "o", "n", "e", ".", "t", "x", "t">>, size |-> 0,
       exists |-> FALSE],
      [line |-> <<"?", "?", " ", ".", "e", "n", "v">>, size |-> 30, exists |-> TRUE],
      [line |-> <<"?", "?", " ", "p", "r", "o", "d", ".", "e", "n", "v">>, size |-> 2048,
       exists |-> TRUE] }

\* Paths of one change set.
MaxChanged == 3

\* git lists a path once.
ChangeSets ==
    {cs \in UNION {[1..n -> ChangedFiles] : n \in 0..MaxChanged} :
        \A m, n \in 1..Len(cs) : cs[m] = cs[n] => m = n}

\* line[3:]
PathOf(line) == SubSeq(line, 4, Len(line))

\* Line 129: status.stdout.splitlines().
PvLines(cs) == [n \in 1..Len(cs) |-> cs[n].line]

\* Line 132: Path(f).stat().st_size if Path(f).exists().
StatSize(f, cs) ==
    IF \E n \in 1..Len(cs) : PathOf(cs[n].line) = f /\ cs[n].exists
    THEN (CHOOSE e \in {cs[n] : n \in 1..Len(cs)} : PathOf(e.line) = f).size
    ELSE 0

\* Line 132: total_bytes.
RECURSIVE TotalBytes(_, _)
TotalBytes(files, cs) ==
    IF files = <<>> THEN 0 ELSE StatSize(Head(files), cs) + TotalBytes(Tail(files), cs)

\* Lines 139-141: "{len(files_to_commit)} arquivos (~{total_bytes//1024} KB)",
\* then one line per path of files_to_commit[:200].
PreviewReport(cs) ==
    LET files == FilesToCommit(PvLines(cs))
    IN [count |-> Len(files),
        kb |-> TotalBytes(files, cs) \div 1024,
        files |-> SubSeq(files, 1, IF Len(files) < PreviewLimit THEN Len(files)
                                   ELSE PreviewLimit)]

\* The checked-out repository of a run that is not followed.
RunIdle ==
    /\ InitRun
    /\ gitignore = Absent
    /\ \A p \in Paths : repo[p] = IF p = P_ATXT THEN FileClean ELSE FileAbsent
    /\ branch = "main"
    /\ user_name = "dev"

InitPreview ==
    /\ RunIdle
    /\ LogIdle
    /\ OpIdle
    /\ pv_in \in ChangeSets
    /\ pv_out = NoReport
    /\ AppIdle
    /\ PsIdle

preview_report ==
    /\ pv_out = NoReport
    /\ pv_out' = PreviewReport(pv_in)
    /\ UNCHANGED <<pv_in, notPvVars>>

NextPreview ==
    \/ preview_report

SpecPreview == InitPreview /\ [][NextPreview]_vars

(***************************************************************************)
(* The storefront, src/app.py.  Flask serves each request in a thread of   *)
(* its own.  read_orders and write_orders hold file_lock for their whole   *)
(* body, so each of them is one step; append_order and the admin handlers  *)
(* call one after the other and hold no lock in between.                   *)
(***************************************************************************)
\* product_id of a payload: none, one of PRODUCTS, one that PRODUCTS lacks.
ProductIds == {0, 1, 99}
InCatalogue(product_id) == product_id \in {1, 2, 3}

\* f"LB{random.randint(100000,999999)}"
OrderIds == {"LB100001", "LB100002"}

\* Values of ADMIN_TOKEN, and the tokens a request brings.
AdminTokens == {"", "adm"}
ProvidedTokens == {"", "adm", "guess"}

\* body.get("status")
NewStatuses == {"", "shipped"}

\* A check that admits every request.
check_admin_Mutant(token_provided) == TRUE

\* Lines 91-95.
check_admin(token_provided) ==
    IF admin_token = "" THEN TRUE
    ELSE token_provided # "" /\ token_provided = admin_token

\* An order of orders.json from an earlier session.  history holds the status
\* of each entry of the order's "history" list.
OldOrder ==
    [order_id |-> "LB100001", by |-> 0, status |-> "processing", sent |-> FALSE,
     history |-> <<"processing">>]

HasOrder(orders, order_id) == \E n \in 1..Len(orders) : orders[n].order_id = order_id

\* The first order with the id: next(...) of line 291, the loop of line 324.
FirstIdx(orders, order_id) ==
    CHOOSE n \in 1..Len(orders) :
        /\ orders[n].order_id = order_id
        /\ \A m \in 1..(n - 1) : orders[m].order_id # order_id

\* The request is answered.
Answer(r, kind, token, status_code) ==
    req' = [req EXCEPT ![r] = [@ EXCEPT !.kind = kind, !.token = token, !.pc = "done",
                                        !.resp = status_code]]

InitApp ==
    /\ RunIdle
    /\ LogIdle
    /\ OpIdle
    /\ PvIdle
    /\ admin_token \in AdminTokens
    /\ orders_file \in {<<>>, <<OldOrder>>}
    /\ req = [r \in Req |-> IdleReq]
    /\ created = {}
    /\ PsIdle

\* Lines 215-251: _create_order_from_payload up to the call of append_order.
create_order_from_payload(r, kind, product_id, order_id) ==
    IF product_id = 0 THEN Answer(r, kind, "", 400)
    ELSE IF ~InCatalogue(product_id) THEN Answer(r, kind, "", 404)
    ELSE req' = [req EXCEPT ![r] =
                    [@ EXCEPT !.kind = kind, !.pc = "append_read",
                              !.order = [order_id |-> order_id, by |-> r,
                                         status |-> "processing", sent |-> FALSE,
                                         history |-> <<"processing">>]]]

\* Lines 142-149.
api_order ==
    /\ \E r \in Req, product_id \in ProductIds, order_id \in OrderIds :
          /\ req[r].pc = "idle"
          /\ create_order_from_payload(r, "api_order", product_id, order_id)
    /\ UNCHANGED <<admin_token, orders_file, created, notAppVars>>

\* Lines 151-195.  _create_order_from_payload answers with a tuple in every
\* case, so line 188 returns its answer as it is.
checkout_form ==
    /\ \E r \in Req, product_id \in ProductIds, order_id \in OrderIds, fields \in BOOLEAN :
          /\ req[r].pc = "idle"
          /\ IF product_id = 0 \/ ~fields THEN Answer(r, "checkout", "", 400)
             ELSE create_order_from_payload(r, "checkout", product_id, order_id)
    /\ UNCHANGED <<admin_token, orders_file, created, notAppVars>>

\* Line 82: orders = read_orders().
append_order_read ==
    /\ \E r \in Req :
          /\ req[r].pc = "append_read"
          /\ req' = [req EXCEPT ![r] = [@ EXCEPT !.local = orders_file,
                                                 !.pc = "append_write"]]
    /\ UNCHANGED <<admin_token, orders_file, created, notAppVars>>

\* Lines 83-84 and 254-263: the order is appended to the list that was read,
\* the list is written, and the request is answered 201; or the write raises
\* and the request is answered 500.
append_order_write ==
    /\ \E r \in Req :
          /\ req[r].pc = "append_write"
          /\ \/ /\ orders_file' = Append(req[r].local, req[r].order)
                /\ created' = created \cup {req[r].order}
                /\ req' = [req EXCEPT ![r] = [@ EXCEPT !.pc = "done", !.resp = 201,
                                                       !.writes = @ + 1]]
             \/ /\ req' = [req EXCEPT ![r] = [@ EXCEPT !.pc = "done", !.resp = 500]]
                /\ UNCHANGED <<orders_file, created>>
    /\ UNCHANGED <<admin_token, notAppVars>>

\* Lines 268-273.
admin_ui ==
    /\ \E r \in Req, token \in ProvidedTokens :
          /\ req[r].pc = "idle"
          /\ Answer(r, "admin_ui", token, IF check_admin(token) THEN 200 ELSE 401)
    /\ UNCHANGED <<admin_token, orders_file, created, notAppVars>>

\* Lines 275-280.
api_admin_orders ==
    /\ \E r \in Req, token \in ProvidedTokens :
          /\ req[r].pc = "idle"
          /\ Answer(r, "admin_orders", token, IF check_admin(token) THEN 200 ELSE 401)
    /\ UNCHANGED <<admin_token, orders_file, created, notAppVars>>

\* Lines 282-286.
api_admin_send_supplier ==
    /\ \E r \in Req, token \in ProvidedTokens, order_id \in OrderIds :
          /\ req[r].pc = "idle"
          /\ IF ~check_admin(token) THEN Answer(r, "send_supplier", token, 401)
             ELSE req' = [req EXCEPT ![r] =
                             [@ EXCEPT !.kind = "send_supplier", !.token = token,
                                       !.order_id = order_id, !.pc = "supplier_read"]]
    /\ UNCHANGED <<admin_token, orders_file, created, notAppVars>>

\* Lines 288-291.
send_supplier_read ==
    /\ \E r \in Req :
          /\ req[r].pc = "supplier_read"
          /\ req' = [req EXCEPT ![r] =
                        IF HasOrder(orders_file, req[r].order_id)
                        THEN [@ EXCEPT !.local = orders_file, !.pc = "supplier_write"]
                        ELSE [@ EXCEPT !.pc = "done", !.resp = 404]]
    /\ UNCHANGED <<admin_token, orders_file, created, notAppVars>>

\* Lines 293-311: the supplier answers, the order is changed in the list that
\* was read, and the list is written.
send_supplier_write ==
    /\ \E r \in Req, ok \in BOOLEAN :
          /\ req[r].pc = "supplier_write"
          /\ orders_file' =
                [req[r].local EXCEPT ![FirstIdx(req[r].local, req[r].order_id)] =
                    LET status == IF ok THEN "sent_to_supplier" ELSE "supplier_error"
                    IN [@ EXCEPT !.sent = TRUE, !.status = status,
                                 !.history = Append(@, status)]]
          /\ req' = [req EXCEPT ![r] = [@ EXCEPT !.pc = "done", !.resp = 200,
                                                 !.writes = @ + 1]]
    /\ UNCHANGED <<admin_token, created, notAppVars>>

\* Lines 313-322.
api_admin_update_status ==
    /\ \E r \in Req, token \in ProvidedTokens, order_id \in OrderIds,
          new_status \in NewStatuses :
          /\ req[r].pc = "idle"
          /\ IF ~check_admin(token) THEN Answer(r, "status", token, 401)
             ELSE IF new_status = "" THEN Answer(r, "status", token, 400)
             ELSE req' = [req EXCEPT ![r] =
                             [@ EXCEPT !.kind = "status", !.token = token,
                                       !.order_id = order_id, !.new_status = new_status,
                                       !.pc = "status_read"]]
    /\ UNCHANGED <<admin_token, orders_file, created, notAppVars>>

\* Lines 324-337.
update_status_read ==
    /\ \E r \in Req :
          /\ req[r].pc = "status_read"
          /\ req' = [req EXCEPT ![r] =
                        IF HasOrder(orders_file, req[r].order_id)
                        THEN [@ EXCEPT !.local = orders_file, !.pc = "status_write"]
                        ELSE [@ EXCEPT !.pc = "done", !.resp = 404]]
    /\ UNCHANGED <<admin_token, orders_file, created, notAppVars>>

\* Lines 339-341.
update_status_write ==
    /\ \E r \in Req :
          /\ req[r].pc = "status_write"
          /\ orders_file' =
                [req[r].local EXCEPT ![FirstIdx(req[r].local, req[r].order_id)] =
                    [@ EXCEPT !.status = req[r].new_status,
                              !.history = Append(@, req[r].new_status)]]
          /\ req' = [req EXCEPT ![r] = [@ EXCEPT !.pc = "done", !.resp = 200,
                                                 !.writes = @ + 1]]
    /\ UNCHANGED <<admin_token, created, notAppVars>>

NextApp ==
    \/ api_order
    \/ checkout_form
    \/ append_order_read
    \/ append_order_write
    \/ admin_ui
    \/ api_admin_orders
    \/ api_admin_send_supplier
    \/ send_supplier_read
    \/ send_supplier_write
    \/ api_admin_update_status
    \/ update_status_read
    \/ update_status_write

SpecApp == InitApp /\ [][NextApp]_vars

(***************************************************************************)
(* The deploy script src/push_git5.py (PowerShell).  $ErrorActionPreference *)
(* is "Stop" and strict mode is on: a failed Invoke-RestMethod and a read  *)
(* of a property the answer does not have both throw.  The exit code of a  *)
(* native command (git) throws nothing.                                    *)
(***************************************************************************)
\* $renderServiceId as line 26 sets it.
ServiceIds == {"", "srv-1"}

Say(p, msgs) == [p EXCEPT !.out = @ \o msgs]
Call(p, request) == [p EXCEPT !.requests = Append(@, request)]
Exit(p, code) == [p EXCEPT !.pc = "exit", !.exit = code]

\* The script push_git2 at its first line: $renderServiceId is not set yet.
Ps2Start(git, origin) == [PsStart("", git, origin) EXCEPT !.pc = "g1"]

InitPs ==
    /\ RunIdle
    /\ LogIdle
    /\ OpIdle
    /\ PvIdle
    /\ AppIdle
    /\ \E service_id \in ServiceIds, git \in BOOLEAN, origin \in BOOLEAN :
          /\ origin => git
          /\ \/ ps = PsStart(service_id, git, origin)
             \/ service_id = "" /\ ps = Ps2Start(git, origin)

\* Lines 45-52.
ps_github_auth ==
    /\ ps.pc = "1"
    /\ \E ok \in BOOLEAN :
          ps' = IF ok THEN [Say(Call(ps, "github_user"), <<"token_ok">>) EXCEPT !.pc = "2"]
                ELSE Exit(Say(Call(ps, "github_user"), <<"token_invalid">>), 1)
    /\ UNCHANGED notPsVars

\* Lines 57-64.
ps_create_repo ==
    /\ ps.pc = "2"
    /\ \E ok \in BOOLEAN :
          ps' = [Say(Call(ps, "github_create_repo"),
                     <<IF ok THEN "repo_created" ELSE "repo_exists_or_error">>)
                   EXCEPT !.pc = "3"]
    /\ UNCHANGED notPsVars

\* Lines 69-86.
ps_git_local ==
    /\ ps.pc = "3"
    /\ ps' = [Say(ps, (IF ps.git THEN <<>> ELSE <<"git_init">>)
                      \o <<IF ps.origin THEN "origin_updated" ELSE "origin_added">>)
                EXCEPT !.git = TRUE, !.origin = TRUE, !.pc = "4"]
    /\ UNCHANGED notPsVars

\* Lines 91-96: git commit and git push are native commands, so the catch of
\* line 93 is never entered and line 96 is printed whatever git push answered.
ps_commit_push ==
    /\ ps.pc = "4"
    /\ \E pushed \in BOOLEAN :
          ps' = [Say(ps, <<"push_sent">>) EXCEPT !.pushed = pushed, !.pc = "5"]
    /\ UNCHANGED notPsVars

\* Lines 130-134: the catch.
DeployFailed(p) ==
    Exit(Say(p, <<"deploy_failed">>
                  \o (IF p.renderServiceId # "" THEN <<"rollback_announced">> ELSE <<>>)), 1)

\* Lines 101-134.  The request is refused ("fail"), or it is answered with an
\* object that has service.serviceDetails.url ("url") or lacks it ("no_url").
ps_render_deploy ==
    /\ ps.pc = "5"
    /\ \E answer \in {"fail", "url", "no_url"} :
          LET create == ps.renderServiceId = ""
              p1 == Call(ps, IF create THEN "render_create_service" ELSE "render_deploy")
              p2 == IF create
                    THEN Say([p1 EXCEPT !.renderServiceId = "srv-new"], <<"service_created">>)
                    ELSE Say(p1, <<"redeploy_requested">>)
          IN ps' = CASE answer = "fail" -> DeployFailed(p1)
                     [] answer = "no_url" -> DeployFailed(p2)
                     [] OTHER -> [Say(p2, <<"url">>) EXCEPT !.pc = "6"]
    /\ UNCHANGED notPsVars

\* Lines 139-140: the script ends, exit code 0.
ps_finish ==
    /\ ps.pc = "6"
    /\ ps' = Exit(Say(ps, <<"finished">>), 0)
    /\ UNCHANGED notPsVars

(***************************************************************************)
(* The deploy script src/push_git2.py (PowerShell).  It sets no error      *)
(* preference: only Invoke-RestMethod throws, inside a try.  The script    *)
(* ends by return or at its last line, with no exit code of its own.       *)
(***************************************************************************)
\* Lines 23-29.
p2_validate_token ==
    /\ ps.pc = "g1"
    /\ \E ok \in BOOLEAN :
          ps' = IF ok THEN [Say(Call(ps, "github_user"), <<"token_ok">>) EXCEPT !.pc = "g2"]
                ELSE Exit(Say(Call(ps, "github_user"), <<"token_invalid">>), 0)
    /\ UNCHANGED notPsVars

\* Lines 34-40.
p2_create_repo ==
    /\ ps.pc = "g2"
    /\ \E ok \in BOOLEAN :
          ps' = [Say(Call(ps, "github_create_repo"),
                     <<IF ok THEN "repo_created" ELSE "repo_exists_or_error">>)
                   EXCEPT !.pc = "g3"]
    /\ UNCHANGED notPsVars

\* Lines 45-62.
p2_git_local ==
    /\ ps.pc = "g3"
    /\ ps' = [Say(ps, (IF ps.git THEN <<>> ELSE <<"git_init">>) \o <<"git_user_configured">>)
                EXCEPT !.git = TRUE, !.pc = "g5"]
    /\ UNCHANGED notPsVars

\* Lines 67-81: lines 69 and 81 are printed whatever git commit and git push
\* answered.
p2_commit_push ==
    /\ ps.pc = "g5"
    /\ \E pushed \in BOOLEAN :
          ps' = [Say(ps, <<"commit_created", "push_sent">>)
                   EXCEPT !.origin = TRUE, !.pushed = pushed, !.pc = "g7"]
    /\ UNCHANGED notPsVars

\* Lines 88-105.
p2_render_deploy ==
    /\ ps.pc = "g7"
    /\ \E ok \in BOOLEAN :
          ps' = Exit(Say(Call([ps EXCEPT !.renderServiceId = "COLE_ID_DO_SERVICO_AQUI"],
                              "render_deploy"),
                         <<IF ok THEN "deploy_triggered" ELSE "deploy_warning", "all_ready">>),
                     0)
    /\ UNCHANGED notPsVars

NextPs ==
    \/ ps_github_auth
    \/ ps_create_repo
    \/ ps_git_local
    \/ ps_commit_push
    \/ ps_render_deploy
    \/ ps_finish
    \/ p2_validate_token
    \/ p2_create_repo
    \/ p2_git_local
    \/ p2_commit_push
    \/ p2_render_deploy

SpecPs == InitPs /\ [][NextPs]_vars

(***************************************************************************)
(* Properties.                                                             *)
(***************************************************************************)
HasStep(name, res) == \E n \in 1..Len(steps) : steps[n] = [step |-> name, res |-> res]

\* run has returned, or an exception has left it.
Ended == pc \in {"done", "crashed"}

DeployCalls == {"deploy_commit", "push", "redeploy"}

Names(msg, piece) == \E n \in 1..Len(msg) : msg[n] = piece

HasExactLine(text, line) ==
    /\ text # Absent
    /\ \E n \in 1..Len(SplitLines(text)) : SplitLines(text)[n] = line

\* The branch of this run is not "main": the repository is on another branch
\* or detached, or git branch --show-current did not answer with "main".
RunOffMain ==
    /\ runs > 0
    /\ branch # "main" \/ HasStep("BranchCheck", "failed") \/ HasStep("BranchCheck", "raised")

\* C1 as stated: in a run whose branch is not "main", no git commit, no push and
\* no redeploy request is issued at any point, and the outcome is a failure.
C1_Original ==
    RunOffMain =>
        /\ calls \cap {"fix_commit", "add_all", "deploy_commit", "push", "redeploy"} = {}
        /\ emitted > 0 => ~outcome.ok

\* C1 amended: in a run whose branch is not "main", no git add ., no deploy
\* commit, no push and no redeploy request is issued and every outcome delivered
\* is a failure; the only commit the run can issue is the remediation commit of
\* line 113, and only when the precheck found .env tracked.
C1_Amended ==
    RunOffMain =>
        /\ calls \cap {"add_all", "deploy_commit", "push", "redeploy"} = {}
        /\ "fix_commit" \in calls => checks.env_in_stage
        /\ emitted > 0 => ~outcome.ok
        /\ pc = "done" => emitted = 1

C1_Witness ==
    /\ branch = "feature-x"
    /\ pc = "done"
    /\ "fix_commit" \in calls
    /\ HasStep("BranchCheck", "failed")
    /\ ~outcome.ok

RemediationWorked ==
    /\ HasStep("Remediate.rm", "ok")
    /\ HasStep("Remediate.ignore", "ok")
    /\ HasStep("Remediate.add", "ok")
    /\ HasStep("Remediate.commit", "ok")

\* C2: if .env is tracked when a run starts, then when the run delivers its
\* outcome .env is no longer tracked and .gitignore has a line equal to ".env",
\* whatever .gitignore held before.  Stated for the runs in which every command
\* of the remediation succeeded.
C2_Claim ==
    (runs > 0 /\ start.env_tracked /\ pc = "done" /\ RemediationWorked) =>
        /\ ~Tracked(repo[P_ENV])
        /\ HasExactLine(gitignore, S_ENV)

\* C3: when .env is in the enumeration of git status --porcelain, the preview
\* leaves it out and the deploy commit of the run does not contain it.
C3_Claim ==
    preview.env_listed =>
        /\ \A n \in 1..Len(preview.files) : preview.files[n] # S_ENV
        /\ P_ENV \notin deployTree

\* C4: with an invalid token and a change set that is not empty, branch and
\* identity checks passed, the run delivers the preview (the count, then every
\* file) and then ends with a failure outcome, without deploy commit, push or
\* redeploy request.
C4_Claim ==
    (HasStep("Preview", "ok") /\ files_to_commit # <<>> /\ ~checks.token_valid /\ Ended) =>
        /\ preview.count = Len(files_to_commit)
        /\ preview.files = files_to_commit
        /\ emitted = 1 /\ ~outcome.ok
        /\ calls \cap DeployCalls = {}

\* C5: the redeploy request is issued only after the push of the same run
\* exited 0; a push that exits non-zero ends the run with a failure outcome and
\* without a redeploy request.
C5_Claim ==
    /\ "redeploy" \in calls => HasStep("Push", "ok")
    /\ (HasStep("Push", "failed") /\ Ended) =>
           /\ emitted = 1 /\ ~outcome.ok
           /\ "redeploy" \notin calls

\* C6: when the enumerated change set is empty the run ends with the success
\* outcome "nothing to send", without commit, push or redeploy request.
C6_Claim ==
    (HasStep("Preview", "ok") /\ files_to_commit = <<>> /\ Ended) =>
        /\ emitted = 1
        /\ outcome = [ok |-> TRUE, msg |-> MsgNothing]
        /\ calls \cap DeployCalls = {}

\* C7: a run that follows another with no local change in between ends with the
\* success outcome "nothing to send" and issues no commit, push or redeploy.
\* Stated for a first run that ended in success without a fault and for a
\* second run in which every command and request succeeded and nothing raised.
C7_Claim ==
    (/\ runs = 2 /\ prev.ok /\ ~prev.faults
     /\ pc = "done"
     /\ HasStep("Preview", "ok")
     /\ \A n \in 1..Len(steps) : steps[n].res = "ok"
     /\ outcome.msg \notin {MsgUnexpected, MsgTimeout}) =>
        /\ outcome = [ok |-> TRUE, msg |-> MsgNothing]
        /\ calls \cap (DeployCalls \cup {"fix_commit"}) = {}

RECURSIVE StepNames(_)
StepNames(n) == IF n = 0 THEN <<>> ELSE Append(StepNames(n - 1), steps[n].step)

IsPrefix(s, t) == Len(s) <= Len(t) /\ SubSeq(t, 1, Len(s)) = s

Chain ==
    <<"Precheck.ignore", "Precheck.credential", "Precheck.tracked",
      "BranchCheck", "IdentityCheck", "Preview", "TokenGate", "Commit", "Push",
      "Redeploy">>

ChainRemediate ==
    <<"Precheck.ignore", "Precheck.credential", "Precheck.tracked",
      "Remediate.rm", "Remediate.ignore", "Remediate.add", "Remediate.commit",
      "BranchCheck", "IdentityCheck", "Preview", "TokenGate", "Commit", "Push",
      "Redeploy">>

\* The steps of the run so far are the first steps of the fixed order.
InOrder ==
    \/ IsPrefix(StepNames(Len(steps)), Chain)
    \/ IsPrefix(StepNames(Len(steps)), ChainRemediate)

\* C8 as stated: the steps run in the fixed order, and a step that fails is
\* followed by no later step.
C8_Original ==
    /\ InOrder
    /\ \A n \in 1..(Len(steps) - 1) : steps[n].res = "ok"

\* The steps whose failure the code records or ignores.
UncheckedSteps ==
    {"Precheck.credential", "Precheck.tracked",
     "Remediate.rm", "Remediate.add", "Remediate.commit"}

\* C8 amended: the steps run in the fixed order; a step that raises, and a
\* failing BranchCheck, IdentityCheck, TokenGate, Commit, Push or Redeploy, is
\* followed by no later step; a failed credential validation, a failed
\* git ls-files and a failed command of the remediation do not stop the run.
C8_Amended ==
    /\ InOrder
    /\ \A n \in 1..(Len(steps) - 1) :
          steps[n].res # "ok" =>
              /\ steps[n].res = "failed"
              /\ steps[n].step \in UncheckedSteps

C8_Witness ==
    /\ pc = "done"
    /\ outcome.ok
    /\ HasStep("Remediate.rm", "failed")
    /\ HasStep("Redeploy", "ok")

\* C9: every run delivers its outcome exactly once, whatever fault is raised.
C9_Claim == Ended => emitted = 1

BranchAbortDelivered ==
    /\ runs > 0
    /\ branch = "feature-x"
    /\ current_branch = "feature-x"
    /\ HasStep("BranchCheck", "failed")
    /\ pc = "done"

C11_Claim ==
    /\ (HasStep("Commit", "nothing") /\ Ended) => "push" \in calls
    /\ (HasStep("Commit", "failed") /\ Ended) =>
           /\ emitted = 1 /\ ~outcome.ok
           /\ calls \cap {"push", "redeploy"} = {}

\* C12: the redeploy step succeeds exactly when the Render response status is
\* 201 or 202, and the run then ends in success; any other status ends the run
\* with a failure outcome whose text holds the status code and an excerpt of
\* the response body.
C12_Claim ==
    (\E res \in {"ok", "failed"} : HasStep("Redeploy", res)) /\ Ended =>
        /\ emitted = 1
        /\ outcome.ok <=> resp.status_code \in {201, 202}
        /\ ~outcome.ok =>
              /\ Names(outcome.msg, Decimal(resp.status_code))
              /\ Names(outcome.msg, resp.text)

\* C13: a timeout of an external call (credential validation, git push,
\* redeploy request) ends the run with the outcome that is specific to
\* timeouts, not with the generic unexpected-error outcome nor any other.
\* Stated for the runs that deliver an outcome.
C13_Claim ==
    (timed_out # {} /\ pc = "done") =>
        /\ emitted = 1
        /\ outcome = [ok |-> FALSE, msg |-> MsgTimeout]

StepRan(name) == \E n \in 1..Len(steps) : steps[n].step = name

\* C14: the precheck never ends the run: once the first precheck has run, the
\* other two prechecks run as well, whatever each of them finds, and the run
\* goes on to the branch check.
C14_Claim ==
    (StepRan("Precheck.ignore") /\ Ended) =>
        /\ StepRan("Precheck.credential")
        /\ StepRan("Precheck.tracked")
        /\ StepRan("BranchCheck")

\* C15: the credential validation marks the token valid exactly when the token
\* is not empty and the identity endpoint answered 200; a network failure, a
\* timeout or another status leaves it invalid; nothing is raised and the run
\* is at the next precheck (line 97) right after the validation.
C15_Theorem ==
    /\ \A r \in {"ok", "failed"} :
          HasStep("Precheck.credential", r) =>
              (checks.token_valid <=> (github_token # "" /\ r = "ok"))
    /\ "gh_validate" \in timed_out => ~checks.token_valid
    /\ ~StepRan("Precheck.credential") => ~checks.token_valid
    /\ Len(steps) = 2 => (steps[2].step = "Precheck.credential" /\ pc = "L97")

C15_Witness ==
    /\ pc = "L97"
    /\ "gh_validate" \in timed_out
    /\ HasStep("Precheck.credential", "failed")
    /\ ~checks.token_valid

\* C16: when no git author name is configured and the branch check passed, the
\* run ends with the failure outcome that carries the hint to configure
\* user.name and user.email, before any preview event, without deploy commit,
\* push or redeploy request.
C16_Claim ==
    (HasStep("IdentityCheck", "failed") /\ Ended) =>
        /\ HasStep("BranchCheck", "ok")
        /\ emitted = 1
        /\ outcome = [ok |-> FALSE, msg |-> MsgIdentity]
        /\ preview = NoPreview
        /\ calls \cap ({"add_all"} \cup DeployCalls) = {}

\* No command, request or file read of this run raised or timed out.
NoStepRaised == \A n \in 1..Len(steps) : steps[n].res # "raised"

\* C17: a failure to write deploy_log.txt never changes the course of a run: a
\* run in which no command, request or file read raised ends as the checks it
\* made decide, with one outcome, never with the unexpected-error outcome.
C17_Claim ==
    (runs > 0 /\ NoStepRaised /\ Ended) =>
        /\ emitted = 1
        /\ outcome.msg # MsgUnexpected

\* A worker has been started and the GUI has not yet received its outcome.
WorkerInFlight == runs > 0 /\ ~(pc = "done" /\ ~signal)

\* C20: at most one deploy run is in flight: start_commit_push starts a worker
\* only when no worker is in flight, that is, never between the start of a
\* worker and the delivery of its outcome to on_deploy_finished.
C20_Theorem == [][runs' # runs => ~WorkerInFlight]_vars

C20_Witness ==
    /\ runs = 2
    /\ pc = "L157"
    /\ WorkerInFlight
    /\ StartRefused(deploy_in_progress, "ghp_secret")

\* lines is a suffix of all.
IsSuffix(lines, all) ==
    /\ Len(lines) <= Len(all)
    /\ \A n \in 1..Len(lines) : lines[n] = all[Len(all) - Len(lines) + n]

C19_Claim ==
    /\ \A n \in 1..Len(log_sink) : ~Contains(log_sink[n], SECRET)
    /\ \A n \in 1..Len(log_file) : ~Contains(log_file[n].text, SECRET)

\* Entries of steps for one step of the sequence.
Count(name) == Cardinality({n \in 1..Len(steps) : steps[n].step = name})

\* C22: in a run the credential validation, the deploy commit, the push and the
\* redeploy request are each issued at most once, and once a run has ended
\* nothing is issued and nothing changes in the repository until
\* start_commit_push starts the next run.
C22_Theorem ==
    [][/\ \A name \in {"Precheck.credential", "Commit", "Push", "Redeploy"} :
             Count(name)' <= 1
       /\ (Ended /\ runs' = runs) =>
             /\ pc' = pc
             /\ steps' = steps
             /\ calls' = calls
             /\ envVars' = envVars]_vars

\* A run whose push failed has delivered its failure, and no other run was started.
C22_Witness ==
    /\ runs = 1
    /\ pc = "done"
    /\ ~signal
    /\ ~deploy_in_progress
    /\ HasStep("Push", "failed")
    /\ ~outcome.ok
    /\ Count("Push") = 1
    /\ "redeploy" \notin calls

\* The positions of run up to the branch check of line 116.
PrecheckPcs ==
    {"L77", "L79", "L86", "L88", "L97", "L101", "L104", "L105", "L106", "L112", "L113",
     "L114"}

\* What the remediation can mutate: the commit history, the index, .gitignore.
GitState == <<[p \in Paths |-> <<repo[p].h, repo[p].i>>], gitignore>>

\* C23: up to the branch check, a run changes .gitignore, the index or the
\* commit history only in the remediation of lines 105-113, which it enters
\* only when git ls-files reported .env as tracked and .env was tracked when
\* the run started; a missing .gitignore or a missing entry is only flagged.
C23_Theorem ==
    [][(pc \in PrecheckPcs /\ GitState' # GitState) =>
           /\ pc \in {"L105", "L106", "L112", "L113"}
           /\ checks.env_in_stage
           /\ start.env_tracked
           /\ Count("Remediate.commit") = 0]_vars

\* A run reaches the branch check with .gitignore missing and .env in the
\* working tree but not tracked: the ignore rule is flagged, nothing was written.
C23_Witness ==
    /\ pc = "L116"
    /\ runs = 1
    /\ ~checks.env_in_stage
    /\ ~checks.gitignore
    /\ HasStep("Precheck.tracked", "ok")
    /\ gitignore = Absent
    /\ repo[P_GITIGNORE] = FileAbsent
    /\ repo[P_ENV] = FileUntracked

\* C24: the remediation of .gitignore (lines 106-111).  A missing file is
\* created with the single line ".env"; a file without a line equal to ".env"
\* gets that line appended and keeps every line it had; a file that has the
\* line is left as it is.
C24_Claim ==
    [][(pc = "L106" /\ pc' = "L112") =>
           /\ gitignore = Absent => SplitLines(gitignore') = <<S_ENV>>
           /\ (gitignore # Absent /\ ~HasExactLine(gitignore, S_ENV)) =>
                 /\ HasExactLine(gitignore', S_ENV)
                 /\ IsPrefix(SplitLines(gitignore), SplitLines(gitignore'))
           /\ HasExactLine(gitignore, S_ENV) => gitignore' = gitignore]_vars

\* C27: every run that has delivered its outcome has emitted
\* security_check_signal exactly once before it, and the dict it emitted holds
\* the values the run acted on: the token gate tested its token_valid, the
\* remediation ran exactly when its env_in_stage was set.
C27_Claim ==
    (StepRan("Precheck.ignore") /\ pc = "done" /\ emitted = 1) =>
        /\ Len(reported) = 1
        /\ HasStep("TokenGate", "ok") => reported[1].token_valid
        /\ HasStep("TokenGate", "failed") => ~reported[1].token_valid
        /\ reported[1].env_in_stage <=> "rm_cached" \in calls

\* C21: while a run is in flight no other handler of the application issues a
\* redeploy request or a git mutation.
C21_Claim == interleaved = {}

\* The paths of a change set other than the secrets file, in order.
RECURSIVE OtherPaths(_)
OtherPaths(cs) ==
    IF cs = <<>> THEN <<>>
    ELSE (IF PathOf(Head(cs).line) = S_ENV THEN <<>> ELSE <<PathOf(Head(cs).line)>>)
         \o OtherPaths(Tail(cs))

\* The sum of the sizes, in bytes, of the files of a change set other than
\* the secrets file.
RECURSIVE OtherBytes(_)
OtherBytes(cs) ==
    IF cs = <<>> THEN 0
    ELSE (IF PathOf(Head(cs).line) = S_ENV THEN 0 ELSE Head(cs).size)
         + OtherBytes(Tail(cs))

\* C25: the preview reports the number of enumerated paths other than the
\* secrets file and the sum of their sizes in bytes, and lists these paths in
\* enumeration order; for [a.txt of 100 bytes, b.txt of 50 bytes] it reports
\* 2 files, 150 bytes, a.txt before b.txt.
C25_Claim ==
    pv_out # NoReport =>
        /\ pv_out.count = Len(OtherPaths(pv_in))
        /\ pv_out.kb = OtherBytes(pv_in)
        /\ pv_out.files = OtherPaths(pv_in)

\* C26: whatever git push wrote to standard error, the event the progress sink
\* receives for the failed push carries that text, cut to at most 800
\* characters.
C26_Claim ==
    \A n \in 1..Len(log_args) : \A stderr \in PushStderrs :
        log_args[n] = PushError(stderr) =>
            /\ Contains(log_sink[n], FirstChars(Strip(stderr), 800))
            /\ Len(log_sink[n]) <= Len(MSG_PUSH) + 800

\* C28: every order whose request was answered 201 is in orders.json, whatever
\* the interleaving of the requests.
C28_Claim ==
    \A o \in created : \E n \in 1..Len(orders_file) : orders_file[n].by = o.by

AdminKinds == {"admin_ui", "admin_orders", "send_supplier", "status"}

\* C29: with ADMIN_TOKEN set, a request to an admin endpoint whose token is
\* missing or is not ADMIN_TOKEN is answered 401 at once and never writes
\* orders.json, and a request that brings ADMIN_TOKEN is not answered 401;
\* with ADMIN_TOKEN empty no request to an admin endpoint is answered 401.
C29_Theorem ==
    \A r \in Req : req[r].kind \in AdminKinds =>
        /\ (admin_token # "" /\ req[r].token # admin_token) =>
              /\ req[r].pc = "done"
              /\ req[r].resp = 401
              /\ req[r].writes = 0
        /\ (admin_token = "" \/ req[r].token = admin_token) => req[r].resp # 401

\* ADMIN_TOKEN is set; a status request with a wrong token was answered 401
\* and orders.json still holds its order unchanged, while a request with the
\* right token was served.
C29_Witness ==
    /\ admin_token = "adm"
    /\ orders_file = <<OldOrder>>
    /\ \E r \in Req :
          /\ req[r].kind = "status"
          /\ req[r].token = "guess"
          /\ req[r].resp = 401
    /\ \E r \in Req :
          /\ req[r].kind = "admin_orders"
          /\ req[r].token = "adm"
          /\ req[r].resp = 200

Said(msg) == \E n \in 1..Len(ps.out) : ps.out[n] = msg
\* The Render request of step 5 was sent and refused.
DeployRequestFailed ==
    /\ Said("deploy_failed")
    /\ ~Said("service_created")
    /\ ~Said("redeploy_requested")

\* C30: when the script exits with code 1 because the Render deploy request
\* failed and a service id is known, a rollback of the deploy has been requested.
C30_Claim ==
    (ps.exit = 1 /\ DeployRequestFailed /\ ps.renderServiceId # "") =>
        \E n \in 1..Len(ps.requests) :
            ps.requests[n] \notin {"github_user", "github_create_repo",
                                   "render_create_service", "render_deploy"}

\* The run has delivered the outcome "Deploy concluido com sucesso.".
DeploySucceeded == emitted > 0 /\ outcome = [ok |-> TRUE, msg |-> MsgSuccess]

\* C31: the success outcome of a deploy is delivered only in runs whose steps
\* were, in this order, a branch check that found main, an identity check
\* that found user.name, a change set that is not empty, a token validated
\* with status 200, a deploy commit that was accepted, a push that exited 0
\* and a Render answer with status 201 or 202.
C31_Theorem ==
    DeploySucceeded =>
        /\ StepNames(Len(steps)) \in {Chain, ChainRemediate}
        /\ HasStep("BranchCheck", "ok") /\ current_branch = "main" /\ branch = "main"
        /\ HasStep("IdentityCheck", "ok") /\ user_name # ""
        /\ HasStep("Preview", "ok") /\ files_to_commit # <<>>
        /\ HasStep("Precheck.credential", "ok") /\ checks.token_valid
        /\ HasStep("TokenGate", "ok")
        /\ HasStep("Commit", "ok") \/ HasStep("Commit", "nothing")
        /\ HasStep("Push", "ok")
        /\ HasStep("Redeploy", "ok") /\ resp.status_code \in {201, 202}
        /\ {"deploy_commit", "push", "redeploy"} \subseteq calls

C31_Witness ==
    /\ DeploySucceeded
    /\ pc = "done"
    /\ runs = 1
    /\ StepNames(Len(steps)) = Chain
    /\ resp.status_code = 202

\* C32: whenever a run has delivered a success outcome, every commit created
\* by this run or by an earlier run of the sequence has been pushed to
\* origin/main.  Stated for the runs in which no command failed or raised.
C32_Claim ==
    (emitted > 0 /\ outcome.ok /\ \A n \in 1..Len(steps) : steps[n].res = "ok") => ~unpushed

\* The worker thread executes its next statement, and the event loop of Qt
\* delivers an emitted finished_signal to on_deploy_finished.  The trigger is
\* the user's: nothing forces it.
Progress == (Running \/ signal) /\ Next

SpecLive == Init /\ [][Next]_vars /\ WF_vars(Progress)

\* C33: after start_commit_push has set deploy_in_progress, deploy_in_progress
\* eventually becomes false again, for every way the run can end.
C33_Claim == deploy_in_progress ~> ~deploy_in_progress

\* The order with the id as orders.json holds it.
Stored(orders, order_id) == orders[FirstIdx(orders, order_id)]

\* C34: for every order stored in orders.json, the status of the order is the
\* status of the last entry of its history, and the history only grows: no
\* write of orders.json removes or replaces an entry of a stored history.
C34_Claim ==
    [][/\ \A n \in 1..Len(orders_file') :
             /\ orders_file'[n].history # <<>>
             /\ orders_file'[n].status =
                    orders_file'[n].history[Len(orders_file'[n].history)]
       /\ \A order_id \in OrderIds :
             (HasOrder(orders_file, order_id) /\ HasOrder(orders_file', order_id)) =>
                 IsPrefix(Stored(orders_file, order_id).history,
                          Stored(orders_file', order_id).history)]_vars

RenderRequests == {"render_create_service", "render_deploy"}

\* C35: in both scripts a request to Render is issued only after
\* git push -u origin main succeeded.
C35_Claim ==
    (\E n \in 1..Len(ps.requests) : ps.requests[n] \in RenderRequests) => ps.pushed

=============================================================================
